---- MODULE Spec2Model ----
(***************************************************************************)
(* CSV ingestion (csv_data_ingestion.py) and the HTTP record gateway       *)
(* (app.py) over one PostgreSQL table.                                     *)
(*                                                                         *)
(* The store is modelled by what the statements the code sends do to one   *)
(* table: a SERIAL primary key with its sequence, typed columns, literal   *)
(* coercion on assignment and comparison, one transaction per connection   *)
(* block.                                                                  *)
(*                                                                         *)
(* The gateway's handlers are taken once an ingestion run has left the     *)
(* table in place (app.py constructs CsvDataIngestion without a csv_path   *)
(* and serves the table an earlier run created). item_id ranges over the   *)
(* values Path(..., ge=1) admits. Every action records its request and its *)
(* answer in last; an ingestion run in progress records "running".         *)
(* Spec is the whole program; SpecCrud, SpecUpdate, SpecLoad and SpecQuery *)
(* are the same program restricted to the operations a property is about.  *)
(***************************************************************************)
EXTENDS Integers, Sequences, FiniteSets, TLC

VARIABLES
    exists,     \* whether schema.table_name exists in the store
    schema,     \* column name -> PostgreSQL type of the existing table
    table,      \* committed rows: primary key -> (data column -> value)
    seq,        \* last value handed out by the SERIAL column's sequence
    pc,         \* position of CsvDataIngestion.__init__: idle/drop/create/insert
    df,         \* self.df, the loaded DataFrame (a sequence of rows)
    append,     \* self.append
    i,          \* index of the next DataFrame row _insert_data executes
    txn,        \* rows as seen inside _insert_data's open transaction
    last        \* the outcome of the last completed operation

vars == <<exists, schema, table, seq, pc, df, append, i, txn, last>>

\* ------------------------------------------------------------------ bounds

\* Largest number of rows the table is allowed to hold.
MaxRows == 2
\* Largest value the sequence is allowed to reach.
MaxSeq == 3

\* ------------------------------------------------------------------ values

\* A Python / SQL scalar: an int, a str or None/NULL.
IntV(n) == [k |-> "int", n |-> n, s |-> ""]
StrV(x) == [k |-> "str", n |-> 0, s |-> x]
Null == [k |-> "null", n |-> 0, s |-> ""]

\* isinstance(value, str)
IsStr(v) == v.k = "str"

\* SQL LOWER() on the strings of the model.
LOWER(x) == CASE x = "John" -> "john"
              [] x = "JOHN" -> "john"
              [] OTHER -> x

\* PostgreSQL's integer input: the strings of the model it accepts.
IsNumeric(x) == x \in {"0", "1", "2", "3", "4", "5"}

StrToInt(x) == CASE x = "0" -> 0 [] x = "1" -> 1 [] x = "2" -> 2
                 [] x = "3" -> 3 [] x = "4" -> 4 [] OTHER -> 5

\* PostgreSQL's integer output (assignment cast integer -> text).
IntToStr(n) == CASE n = 0 -> "0" [] n = 1 -> "1" [] n = 2 -> "2"
                 [] n = 3 -> "3" [] n = 4 -> "4" [] OTHER -> "5"

\* ------------------------------------------------------------------ schema

PK == "_csv_import_id_"
DataCols == {"name", "age"}
AllCols == {PK} \cup DataCols

\* Whether a value can be stored in / compared with a column of type ty.
Bindable(ty, v) ==
    \/ v.k = "null"
    \/ ty = "TEXT"
    \/ ty = "INTEGER" /\ (v.k = "int" \/ (v.k = "str" /\ IsNumeric(v.s)))

\* The value as the column of type ty holds it.
Bind(ty, v) ==
    CASE v.k = "null" -> Null
      [] ty = "TEXT" /\ v.k = "int" -> StrV(IntToStr(v.n))
      [] ty = "INTEGER" /\ v.k = "str" -> IntV(StrToInt(v.s))
      [] OTHER -> v

\* The type of column c of the existing table.
ColType(c) == IF c = PK THEN "INTEGER" ELSE schema[c]

\* SELECT *: the record with primary key id of rows t.
RowOf(t, id) == [c \in AllCols |-> IF c = PK THEN IntV(id) ELSE t[id][c]]

NoRows == [id \in {} |-> Null]

\* ------------------------------------------------------------------ store

\* INSERT INTO t (cols of data) VALUES (...) on rows t with the sequence at s.
\* A statement that fails to parse or to coerce a literal never calls
\* nextval; a generated key that collides has consumed its sequence value.
InsertStmt(t, s, data) ==
    LET cols == DOMAIN data
        bad == \/ cols = {}
               \/ ~(cols \subseteq AllCols)
               \/ \E c \in cols : ~Bindable(ColType(c), data[c])
        given == PK \in cols
        s2 == IF bad \/ given THEN s ELSE s + 1
        key == IF bad THEN Null
               ELSE IF given THEN Bind("INTEGER", data[PK]) ELSE IntV(s2)
        ok == ~bad /\ key.k = "int" /\ key.n \notin DOMAIN t
        new == [c \in DataCols |->
                   IF c \in cols THEN Bind(ColType(c), data[c]) ELSE Null]
    IN  [ok |-> ok,
         seq |-> s2,
         id |-> IF ok THEN key.n ELSE 0,
         rows |-> IF ok
                  THEN [r \in DOMAIN t \cup {key.n} |->
                           IF r = key.n THEN new ELSE t[r]]
                  ELSE t]

\* SetRow replacing the whole row: columns the SET list omits become NULL.
SetRowWhole(old, cols) ==
    [c \in DataCols |->
        IF c \in DOMAIN cols THEN Bind(ColType(c), cols[c]) ELSE Null]

\* The row an UPDATE ... SET writes over old for the SET columns cols.
SetRow(old, cols) ==
    [c \in DataCols |->
        IF c \in DOMAIN cols THEN Bind(ColType(c), cols[c]) ELSE old[c]]

\* UPDATE t SET (cols) WHERE _csv_import_id_ = item_id RETURNING *.
\* res is "error" (the statement fails), "norow" (no row returned) or "row".
UpdateStmt(t, item_id, cols) ==
    LET names == DOMAIN cols
        bad == \/ names = {}
               \/ ~(names \subseteq AllCols)
               \/ \E c \in names : ~Bindable(ColType(c), cols[c])
        found == item_id \in DOMAIN t
        key == IF ~bad /\ PK \in names
               THEN Bind("INTEGER", cols[PK]) ELSE IntV(item_id)
        clash == found /\ (key.k # "int" \/
                           (key.n # item_id /\ key.n \in DOMAIN t))
        res == IF bad \/ clash THEN "error"
               ELSE IF ~found THEN "norow" ELSE "row"
    IN  [res |-> res,
         id |-> IF res = "row" THEN key.n ELSE 0,
         rows |-> IF res = "row"
                  THEN [r \in (DOMAIN t \ {item_id}) \cup {key.n} |->
                           IF r = key.n THEN SetRow(t[item_id], cols)
                           ELSE t[r]]
                  ELSE t]

\* DELETE FROM t WHERE _csv_import_id_ IN (ids) RETURNING _csv_import_id_.
\* An empty list renders as IN (), which PostgreSQL rejects.
DeleteStmt(t, ids) ==
    [ok |-> ids # {},
     deleted |-> IF ids # {} THEN ids \cap DOMAIN t ELSE {},
     rows |-> IF ids # {}
              THEN [r \in DOMAIN t \ ids |-> t[r]]
              ELSE t]

\* ------------------------------------------------------------------ predicates

\* Comparison ignoring case_sensitive: always "col" = :p.
ComparisonDirect(value, case_sensitive) == "direct"

\* The comparison build_where_clause / search_data emit for one condition:
\* LOWER("col") = LOWER(:p) for a str value unless case_sensitive, else
\* "col" = :p.
Comparison(value, case_sensitive) ==
    IF IsStr(value) /\ ~case_sensitive THEN "lower" ELSE "direct"

\* build_where_clause: the comparisons (each with its bound parameter) and the
\* text they are joined with. Nothing is validated: every input compiles.
build_where_clause(conditions, operator, case_sensitive) ==
    [clauses |-> {[col |-> c,
                   fn |-> Comparison(conditions[c], case_sensitive),
                   param |-> conditions[c]] : c \in DOMAIN conditions},
     joiner |-> operator]

\* Whether the store rejects SELECT ... WHERE where: an empty WHERE, two
\* comparisons joined by something that is no operator, a column the table
\* does not have, LOWER() of an integer column, text = integer, or a string
\* literal that is no integer compared with an integer column.
\* UndefinedColumn with the column names never resolved.
UndefinedColumnIgnored(where) == FALSE

UndefinedColumn(where) == \E cl \in where.clauses : cl.col \notin AllCols

IllTyped(cl) ==
    /\ cl.col \in AllCols
    /\ \/ cl.fn = "lower" /\ ColType(cl.col) # "TEXT"
       \/ cl.fn = "direct" /\ cl.param.k = "int" /\ ColType(cl.col) = "TEXT"
       \/ cl.fn = "direct" /\ ~Bindable(ColType(cl.col), cl.param)

SelectFails(where) ==
    \/ where.clauses = {}
    \/ Cardinality(where.clauses) > 1 /\ where.joiner \notin {"AND", "OR"}
    \/ UndefinedColumn(where)
    \/ \E cl \in where.clauses : IllTyped(cl)

\* Whether the row satisfies one comparison (NULL never compares equal).
Holds(row, cl) ==
    LET stored == row[cl.col]
    IN  /\ cl.col \in AllCols
        /\ stored.k # "null"
        /\ cl.param.k # "null"
        /\ IF cl.fn = "lower"
           THEN stored.k = "str" /\ LOWER(stored.s) = LOWER(cl.param.s)
           ELSE stored = Bind(ColType(cl.col), cl.param)

\* The keys of the rows of t the WHERE clause selects.
Selected(t, where) ==
    {id \in DOMAIN t :
        IF where.joiner = "OR"
        THEN \E cl \in where.clauses : Holds(RowOf(t, id), cl)
        ELSE \A cl \in where.clauses : Holds(RowOf(t, id), cl)}

\* ------------------------------------------------------------------ handlers

\* ExceptClauses without "except HTTPException: raise": all become 400.
ExceptAll(exc) == "400"

\* app.py's except clauses: an HTTPException passes, anything else is a 400.
ExceptClauses(exc) == IF exc = "HTTPException" THEN "404" ELSE "400"

\* with engine.begin(): commit when the block returns, roll back when it raises.
EngineBegin(before, after, raised) == IF raised THEN before ELSE after

\* ConnExit with every statement committed as it runs (autocommit).
ConnExitKeeps(before, working, raised) == working

\* psycopg2's with-connection block around _insert_data's loop: the inserts
\* share one transaction, rolled back when a statement raises.
ConnExit(before, working, raised) == IF raised THEN before ELSE working

\* ------------------------------------------------------------------ inputs

\* A DataFrame row.
Row(name, age) == [c \in DataCols |-> IF c = "name" THEN name ELSE age]

\* The DataFrames pd.read_csv yields here: an all-integer age column is
\* int64; an age column with a non-number in it is object and holds strings.
Frames ==
    { <<Row(StrV("John"), IntV(1))>>,
      <<Row(StrV("John"), IntV(1)), Row(StrV("john"), IntV(2))>>,
      <<Row(StrV("John"), StrV("2")), Row(StrV("john"), StrV("john"))>> }

\* Values a caller sends in a JSON body.
InputVals == {StrV("john"), IntV(2), Null}

\* The values sent for a column in a record body / in search conditions.
BodyVals(c) == CASE c = "name" -> {StrV("john")}
                [] c = "age" -> {IntV(2), StrV("john")}
                [] c = PK -> {IntV(2), Null}
                [] OTHER -> {IntV(2)}

SearchVals(c) == CASE c = "name" -> {StrV("john"), IntV(2)}
                  [] c = "age" -> {IntV(2), StrV("john")}
                  [] OTHER -> {IntV(2)}

\* item_id: Path(..., ge=1).
Ids == 1..MaxSeq

\* The mappings of at most two of the columns cols to caller values.
Bodies(cols) ==
    UNION {{f \in [d -> InputVals] : \A c \in d : f[c] \in BodyVals(c)} :
              d \in {x \in SUBSET cols : Cardinality(x) <= 2}}

Conditions(cols) ==
    UNION {{f \in [d -> InputVals] : \A c \in d : f[c] \in SearchVals(c)} :
              d \in {x \in SUBSET cols : Cardinality(x) <= 2}}

Operators == {"AND", "OR", "XOR"}

NoData == [c \in {} |-> Null]

NoOp == [op |-> "none", status |-> "", key |-> 0, ids |-> {},
         data |-> NoData, operator |-> "", cs |-> FALSE, limit |-> 0,
         rows |-> {}, deleted |-> {}, compiled |-> FALSE]

\* ------------------------------------------------------------------ ingestion

\* str(self.df[column].dtype)
Dtype(frame, c) ==
    IF \A r \in 1..Len(frame) : frame[r][c].k = "int" THEN "int64" ELSE "object"

\* dtype_mapping.get(dtype, 'TEXT')
PgType(dtype) ==
    CASE dtype = "int64" -> "INTEGER"
      [] dtype = "float64" -> "NUMERIC"
      [] dtype = "object" -> "TEXT"
      [] dtype = "datetime64[ns]" -> "TIMESTAMP"
      [] dtype = "bool" -> "BOOLEAN"
      [] OTHER -> "TEXT"

\* last while an ingestion run is under way.
Running == [NoOp EXCEPT !.op = "ingest", !.status = "running"]

NoSchema == [c \in DataCols |-> "TEXT"]

Init ==
    /\ exists = FALSE
    /\ schema = NoSchema
    /\ table = NoRows
    /\ seq = 0
    /\ pc = "idle"
    /\ df = <<>>
    /\ append = FALSE
    /\ i = 1
    /\ txn = NoRows
    /\ last = NoOp

\* CsvDataIngestion.__init__ with a csv_path, up to the first statement.
NewIngestion(frame, app) ==
    /\ pc = "idle"
    /\ (IF app THEN Cardinality(DOMAIN table) ELSE 0) + Len(frame) <= MaxRows
    /\ (IF app THEN seq ELSE 0) + Len(frame) <= MaxSeq
    /\ df' = frame
    /\ append' = app
    /\ pc' = IF app THEN "create" ELSE "drop"
    /\ last' = Running
    /\ UNCHANGED <<exists, schema, table, seq, i, txn>>

\* drop_table_if_exists that drops nothing.
drop_table_skipped ==
    /\ pc = "drop"
    /\ pc' = "create"
    /\ last' = Running
    /\ UNCHANGED <<exists, schema, table, seq, df, append, i, txn>>

\* DROP TABLE IF EXISTS: the table goes, and the sequence it owns with it.
drop_table_if_exists ==
    /\ pc = "drop"
    /\ exists' = FALSE
    /\ schema' = NoSchema
    /\ table' = NoRows
    /\ seq' = 0
    /\ pc' = "create"
    /\ last' = Running
    /\ UNCHANGED <<df, append, i, txn>>

\* CREATE TABLE IF NOT EXISTS with the SERIAL key and the inferred columns.
create_table_with_id ==
    /\ pc = "create"
    /\ exists' = TRUE
    /\ schema' = IF exists THEN schema
                 ELSE [c \in DataCols |-> PgType(Dtype(df, c))]
    /\ table' = IF exists THEN table ELSE NoRows
    /\ seq' = IF exists THEN seq ELSE 0
    /\ pc' = "insert"
    /\ i' = 1
    /\ txn' = table'
    /\ last' = Running
    /\ UNCHANGED <<df, append>>

\* One cur.execute(insert_query, tuple(row)) of _insert_data's loop. A row
\* the store rejects ends the load: the exception leaves the with-block.
insert_row ==
    /\ pc = "insert"
    /\ i <= Len(df)
    /\ LET r == InsertStmt(txn, seq, df[i])
       IN  /\ seq' = r.seq
           /\ IF r.ok
              THEN /\ txn' = r.rows
                   /\ i' = i + 1
                   /\ last' = Running
                   /\ UNCHANGED <<table, pc>>
              ELSE /\ table' = ConnExit(table, txn, TRUE)
                   /\ txn' = NoRows
                   /\ i' = 1
                   /\ pc' = "idle"
                   /\ last' = [NoOp EXCEPT !.op = "ingest", !.status = "error",
                                           !.key = i - 1]
    /\ UNCHANGED <<exists, schema, df, append>>

\* conn.commit() after the last row.
insert_commit ==
    /\ pc = "insert"
    /\ i > Len(df)
    /\ table' = ConnExit(table, txn, FALSE)
    /\ txn' = NoRows
    /\ i' = 1
    /\ pc' = "idle"
    /\ last' = [NoOp EXCEPT !.op = "ingest", !.status = "ok", !.key = Len(df)]
    /\ UNCHANGED <<exists, schema, seq, df, append>>

Ingest ==
    \/ \E frame \in Frames, app \in BOOLEAN : NewIngestion(frame, app)
    \/ drop_table_if_exists
    \/ create_table_with_id
    \/ insert_row
    \/ insert_commit

\* ------------------------------------------------------------------ gateway

\* The gateway serves the table once an ingestion run has left it in place.
Serving == pc = "idle" /\ exists

RowsOf(t, keys) == {RowOf(t, id) : id \in keys}

\* get_item's answer on rows t: the record, or the 404 it raises on an empty
\* result, which the except clauses let through.
ReadById(t, item_id) ==
    IF item_id \in DOMAIN t
    THEN [status |-> "200", rows |-> {RowOf(t, item_id)}]
    ELSE [status |-> ExceptClauses("HTTPException"), rows |-> {}]

\* GET /items/{item_id}
get_item(item_id) ==
    /\ Serving
    /\ last' = [NoOp EXCEPT
            !.op = "get_item",
            !.key = item_id,
            !.status = ReadById(table, item_id).status,
            !.rows = ReadById(table, item_id).rows]
    /\ UNCHANGED <<exists, schema, table, seq, pc, df, append, i, txn>>

\* POST /items
create_item(data) ==
    /\ Serving
    /\ Cardinality(DOMAIN table) < MaxRows
    /\ seq < MaxSeq
    /\ LET r == InsertStmt(table, seq, data)
       IN  /\ table' = EngineBegin(table, r.rows, ~r.ok)
           /\ seq' = r.seq
           /\ last' = [NoOp EXCEPT
                !.op = "create_item",
                !.data = data,
                !.key = r.id,
                !.status = IF r.ok THEN "200"
                           ELSE ExceptClauses("SQLAlchemyError"),
                !.rows = IF r.ok THEN {RowOf(r.rows, r.id)} ELSE {}]
    /\ UNCHANGED <<exists, schema, pc, df, append, i, txn>>

\* PUT /items/{item_id}
update_item(item_id, columns) ==
    /\ Serving
    /\ LET r == UpdateStmt(table, item_id, columns)
       IN  /\ table' = EngineBegin(table, r.rows, r.res # "row")
           /\ last' = [NoOp EXCEPT
                !.op = "update_item",
                !.key = item_id,
                !.data = columns,
                !.status = CASE r.res = "row" -> "200"
                             [] r.res = "norow" ->
                                    ExceptClauses("HTTPException")
                             [] OTHER -> ExceptClauses("SQLAlchemyError"),
                !.rows = IF r.res = "row" THEN {RowOf(r.rows, r.id)} ELSE {}]
    /\ UNCHANGED <<exists, schema, seq, pc, df, append, i, txn>>

\* DELETE /items
delete_items(ids) ==
    /\ Serving
    /\ LET r == DeleteStmt(table, ids)
       IN  /\ table' = EngineBegin(table, r.rows, ~r.ok)
           /\ last' = [NoOp EXCEPT
                !.op = "delete_items",
                !.ids = ids,
                !.status = IF r.ok THEN "200"
                           ELSE ExceptClauses("SQLAlchemyError"),
                !.deleted = r.deleted]
    /\ UNCHANGED <<exists, schema, seq, pc, df, append, i, txn>>

\* POST /query_by_text: at most limit of the selected rows, whichever the
\* store returns first.
query_by_text(conditions, operator, case_sensitive, limit) ==
    /\ Serving
    /\ LET where == build_where_clause(conditions, operator, case_sensitive)
           hit == Selected(table, where)
       IN  IF SelectFails(where)
           THEN last' = [NoOp EXCEPT
                    !.op = "query_by_text", !.data = conditions,
                    !.operator = operator, !.cs = case_sensitive,
                    !.limit = limit, !.compiled = TRUE,
                    !.status = ExceptClauses("SQLAlchemyError")]
           ELSE \E got \in SUBSET hit :
                    /\ Cardinality(got) = IF Cardinality(hit) < limit
                                          THEN Cardinality(hit) ELSE limit
                    /\ last' = [NoOp EXCEPT
                           !.op = "query_by_text", !.data = conditions,
                           !.operator = operator, !.cs = case_sensitive,
                           !.limit = limit, !.compiled = TRUE,
                           !.status = "200", !.rows = RowsOf(table, got)]
    /\ UNCHANGED <<exists, schema, table, seq, pc, df, append, i, txn>>

\* CsvDataIngestion.search_data: raises ValueError on empty conditions before
\* building anything; a statement the store rejects raises DatabaseError.
search_data(conditions, operator, case_sensitive) ==
    /\ Serving
    /\ LET where == build_where_clause(conditions, operator, case_sensitive)
           base == [NoOp EXCEPT
                    !.op = "search_data", !.data = conditions,
                    !.operator = operator, !.cs = case_sensitive]
       IN  last' = IF DOMAIN conditions = {}
                   THEN [base EXCEPT !.status = "ValueError"]
                   ELSE IF SelectFails(where)
                   THEN [base EXCEPT !.status = "DatabaseError",
                                     !.compiled = TRUE]
                   ELSE [base EXCEPT !.status = "ok", !.compiled = TRUE,
                            !.rows = RowsOf(table, Selected(table, where))]
    /\ UNCHANGED <<exists, schema, table, seq, pc, df, append, i, txn>>

Crud ==
    \/ \E item_id \in Ids : get_item(item_id)
    \/ \E data \in Bodies(AllCols \cup {"nope"}) : create_item(data)
    \/ \E item_id \in Ids, columns \in Bodies(AllCols \cup {"nope"}) :
           update_item(item_id, columns)
    \/ \E ids \in SUBSET Ids : delete_items(ids)

Query ==
    \/ \E conditions \in Conditions(DataCols \cup {"nope"}),
          operator \in Operators, case_sensitive \in BOOLEAN, limit \in 1..2 :
           query_by_text(conditions, operator, case_sensitive, limit)
    \/ \E conditions \in Conditions(DataCols \cup {"nope"}),
          operator \in Operators, case_sensitive \in BOOLEAN :
           search_data(conditions, operator, case_sensitive)

Next == Ingest \/ Crud \/ Query

Spec == Init /\ [][Next]_vars

\* Ingestion runs and the record operations.
NextCrud == Ingest \/ Crud

SpecCrud == Init /\ [][NextCrud]_vars

\* Ingestion runs, reads by id and updates.
NextUpdate ==
    \/ Ingest
    \/ \E item_id \in Ids : get_item(item_id)
    \/ \E item_id \in Ids, columns \in Bodies(AllCols \cup {"nope"}) :
           update_item(item_id, columns)

SpecUpdate == Init /\ [][NextUpdate]_vars

\* Ingestion runs over tables that batch deletes have thinned.
NextLoad == Ingest \/ \E ids \in SUBSET Ids : delete_items(ids)

SpecLoad == Init /\ [][NextLoad]_vars

\* Ingestion runs and the searches.
NextQuery == Ingest \/ Query

SpecQuery == Init /\ [][NextQuery]_vars

\* ------------------------------------------------------------------ claims

\* The value a caller gave for column c, as a column of c's type holds it
\* (NoValue for a column the table lacks or a value its type refuses).
NoValue == [k |-> "none", n |-> 0, s |-> ""]

Given(m, c) ==
    IF c \in AllCols /\ Bindable(ColType(c), m[c])
    THEN Bind(ColType(c), m[c]) ELSE NoValue

\* A body the store can execute as a SET list or a column list.
WellFormed(m) ==
    /\ DOMAIN m # {}
    /\ DOMAIN m \subseteq AllCols
    /\ \A c \in DOMAIN m : Bindable(ColType(c), m[c])

\* C1: delete-batch, for any set of keys, removes exactly the records whose
\* key is in the set, returns exactly the given keys that existed, raises no
\* error for absent keys, and a second call with the same keys returns
\* nothing and changes nothing.
C1_DeleteBatch ==
    [][last'.op = "delete_items" =>
          /\ last'.status = "200"
          /\ last'.deleted = last'.ids \cap DOMAIN table
          /\ DOMAIN table' = DOMAIN table \ last'.ids
          /\ \A r \in DOMAIN table' : table'[r] = table[r]
          /\ DeleteStmt(table', last'.ids).deleted = {}
          /\ DeleteStmt(table', last'.ids).rows = table']_vars

C3_CreateThenRead ==
    (last.op = "create_item" /\ last.status = "200") =>
        LET got == ReadById(table, last.key)
        IN  /\ got.status = "200"
            /\ \A row \in got.rows :
                  /\ \A c \in DOMAIN last.data : row[c] = Given(last.data, c)
                  /\ row[PK].k = "int"
                  /\ row[PK].n = seq

\* C4: the primary key is system-generated and immutable: no create stores a
\* key the caller chose, and no update changes the key of a record.
C4_KeyGeneratedImmutable ==
    [][/\ (last'.op = "create_item" /\ last'.status = "200") =>
              /\ seq' = seq + 1
              /\ DOMAIN table' = DOMAIN table \cup {seq'}
       /\ last'.op = "update_item" => DOMAIN table' = DOMAIN table
       /\ last'.op = "delete_items" =>
              \A r \in DOMAIN table' : r \in DOMAIN table]_vars

IsSearch == last.op \in {"query_by_text", "search_data"}

C6_CompilerRejects ==
    (IsSearch /\ (DOMAIN last.data = {} \/ last.operator \notin {"AND", "OR"}))
        => /\ ~last.compiled
           /\ last.status \in {"400", "ValueError"}

\* The single column and value of a one-condition search, and the rows of
\* the table the claimed rule selects for it.
OneCol == CHOOSE c \in DOMAIN last.data : TRUE

Matching ==
    LET v == last.data[OneCol]
    IN  {id \in DOMAIN table :
            LET stored == RowOf(table, id)[OneCol]
            IN  IF v.k = "str" /\ ~last.cs
                THEN stored.k = "str" /\ LOWER(stored.s) = LOWER(v.s)
                ELSE stored = v}

\* A one-condition search of a text value on a text column, or of an integer
\* on an integer column.
OneTyped ==
    /\ IsSearch
    /\ Cardinality(DOMAIN last.data) = 1
    /\ OneCol \in AllCols
    /\ \/ last.data[OneCol].k = "str" /\ ColType(OneCol) = "TEXT"
       \/ last.data[OneCol].k = "int" /\ ColType(OneCol) = "INTEGER"

IngestEnded(status) == last.op = "ingest" /\ last.status = status

\* C8: after an ingestion run completes the table has as many rows as the
\* source, under the overwrite and the append policy alike and whatever the
\* table held before.
C8_RowCountEqualsSource ==
    [][IngestEnded("ok")' => Cardinality(DOMAIN table') = Len(df)]_vars

\* C8 as amended: after a completed run the table has as many rows as the
\* source under the overwrite policy, and as many as it held before the run
\* plus the source's under the append policy.
C8_RowCountByPolicy ==
    [][IngestEnded("ok")' =>
          Cardinality(DOMAIN table') =
              (IF append THEN Cardinality(DOMAIN table) ELSE 0) + Len(df)]_vars

\* C8's case: an append run has completed over a table that held rows.
C8_Witness ==
    /\ IngestEnded("ok")
    /\ append
    /\ Cardinality(DOMAIN table) > Len(df)

\* C10: when the insert of row k fails the load aborts and rows 0..k-1 stay
\* committed in the table.
C10_PartialLoadCommitted ==
    [][IngestEnded("error")' =>
          Cardinality(DOMAIN table') =
              Cardinality(DOMAIN table) + last'.key]_vars

\* C10 as amended: the inserts of a load share one transaction; when the
\* insert of row k fails the load aborts with an error and rows 0..k-1 are
\* rolled back, so the table holds exactly what it held before the load.
C10_FailedLoadRolledBack ==
    [][IngestEnded("error")' =>
          /\ table' = table
          /\ \A r \in DOMAIN txn \ DOMAIN table : r \notin DOMAIN table']_vars

\* C10's case: a load has failed at a row after the first.
C10_Witness ==
    /\ IngestEnded("error")
    /\ last.key >= 1

====
